---- MODULE Spec2Model ----
(***************************************************************************)
(* make-babel: the project scaffolding command line tool.                  *)
(*                                                                         *)
(* Strings on which the program computes (template identifiers, file       *)
(* names, command lines) are sequences of one-character strings, so that   *)
(* startsWith, includes and the regular expressions of the source are      *)
(* computed and not assumed.                                               *)
(***************************************************************************)
EXTENDS Integers, Sequences, FiniteSets, TLC

\* ---------------------------------------------------------------- bounds
\* longest template identifier enumerated character by character
MaxLen == 3

\* ------------------------------------------------------- string helpers
StartsWith(s, p) == Len(s) >= Len(p) /\ SubSeq(s, 1, Len(p)) = p

EndsWith(s, p) == Len(s) >= Len(p) /\ SubSeq(s, Len(s) - Len(p) + 1, Len(s)) = p

Includes(s, p) == \E i \in 1..(Len(s) - Len(p) + 1) : SubSeq(s, i, i + Len(p) - 1) = p

Drop(s, n) == SubSeq(s, n + 1, Len(s))

\* the characters the regular expression atom . does not match
LineTerminators == {"\n", "\r"}

DotAll(s) == \A i \in 1..Len(s) : s[i] \notin LineTerminators

\* ------------------------------------------------------------ path.resolve
RECURSIVE SplitPath(_, _, _)
\* the segments of path p between "/" characters; cur is the segment being read
SplitPath(p, cur, acc) ==
    IF p = <<>> THEN Append(acc, cur)
    ELSE IF Head(p) = "/" THEN SplitPath(Tail(p), <<>>, Append(acc, cur))
    ELSE SplitPath(Tail(p), Append(cur, Head(p)), acc)

RECURSIVE NormalizeSegments(_, _)
\* drops empty and "." segments, lets ".." remove the segment before it
NormalizeSegments(segs, acc) ==
    IF segs = <<>> THEN acc
    ELSE LET s == Head(segs) IN
         IF s = <<>> \/ s = <<".">> THEN NormalizeSegments(Tail(segs), acc)
         ELSE IF s = <<".", ".">> THEN
             NormalizeSegments(Tail(segs),
                 IF acc = <<>> THEN acc ELSE SubSeq(acc, 1, Len(acc) - 1))
         ELSE NormalizeSegments(Tail(segs), Append(acc, s))

RECURSIVE JoinPath(_)
JoinPath(segs) ==
    IF segs = <<>> THEN <<>> ELSE <<"/">> \o Head(segs) \o JoinPath(Tail(segs))

\* path.resolve(from, to) on POSIX, from an absolute directory
PathResolve(from, to) ==
    LET full == IF StartsWith(to, <<"/">>) THEN to ELSE from \o <<"/">> \o to
        segs == NormalizeSegments(SplitPath(full, <<>>, <<>>), <<>>)
    IN IF segs = <<>> THEN <<"/">> ELSE JoinPath(segs)

\* process.cwd() when the tool starts
OriginalDirectory == <<"/", "w">>

\* ------------------------------------------------- JavaScript values
Undefined == [type |-> "undefined", val |-> <<>>]

BoolTrue == [type |-> "boolean", val |-> <<>>]

Str(s) == [type |-> "string", val |-> s]

\* a completed call: threw says that it raised an exception
Returned(v) == [threw |-> FALSE, value |-> v]

Thrown == [threw |-> TRUE, value |-> <<>>]

\* --------------------------------------------- getTemplateInstallPackage
DefaultTemplate == <<"@", "h", "a", "c", "k", "e", "r", "m", "a", "n", "s", "/", "c", "b", "a", "-", "t", "e", "m", "p", "l", "a", "t", "e">>

\* index of the first "/" of t, 0 when there is none
FirstSlash(t) ==
    IF \E i \in 1..Len(t) : t[i] = "/"
    THEN CHOOSE i \in 1..Len(t) : t[i] = "/" /\ \A j \in 1..(i - 1) : t[j] # "/"
    ELSE 0

\* end of the longest run of characters other than "@" that starts at i
RunEnd(t, i) ==
    CHOOSE j \in (i - 1)..Len(t) :
        /\ \A k \in i..j : t[k] # "@"
        /\ (j = Len(t) \/ t[j + 1] = "@")

\* one attempt of the expression with group 1 ending at g1: group 2 takes the
\* longest run of non-"@" characters, group 3 the rest when it is "@" and
\* at least one more character, none of them a line terminator
MatchFrom(t, g1) ==
    LET g2    == RunEnd(t, g1 + 1)
        rest  == Drop(t, g2)
        ok    == rest = <<>> \/ (Head(rest) = "@" /\ Len(rest) >= 2 /\ DotAll(Tail(rest)))
    IN [matched |-> ok,
        scope   |-> SubSeq(t, 1, g1),
        name    |-> SubSeq(t, g1 + 1, g2),
        version |-> IF ok THEN rest ELSE <<>>]

\* template.match(/^(@[^/]+\/)?([^@]+)?(@.+)?$/): group 1 is tried first (it
\* is "@", one or more characters and the first "/"), then the match without it
PackageMatch(t) ==
    LET k == FirstSlash(t)
        withScope == t # <<>> /\ Head(t) = "@" /\ k >= 3
    IN IF withScope /\ MatchFrom(t, k).matched THEN MatchFrom(t, k)
       ELSE MatchFrom(t, 0)

\* template.match(/^.+\.(tgz|tar\.gz)$/)
IsTarball(t) ==
    /\ DotAll(t)
    /\ \/ EndsWith(t, <<".", "t", "g", "z">>) /\ Len(t) > 4
       \/ EndsWith(t, <<".", "t", "a", "r", ".", "g", "z">>) /\ Len(t) > 7

\* template.match(/^file:(.*)?$/)[1]: the path after "file:"; the group is
\* undefined when nothing follows, and there is no match across a line end
FilePath(t) ==
    LET rest == Drop(t, 5)
    IN IF DotAll(rest) /\ rest # <<>> THEN Returned(rest) ELSE Thrown

\* AddPrefix with the version left out of the result
AddPrefix_VersionDropped(m) ==
    IF m.name = DefaultTemplate \/ StartsWith(m.name, DefaultTemplate \o <<"-">>)
    THEN m.scope \o m.name
    ELSE IF m.version # <<>> /\ m.scope = <<>> /\ m.name = <<>>
    THEN m.version \o <<"/">> \o DefaultTemplate
    ELSE m.scope \o DefaultTemplate \o <<"-">> \o m.name

\* the prefix branch of getTemplateInstallPackage
AddPrefix(m) ==
    IF m.name = DefaultTemplate \/ StartsWith(m.name, DefaultTemplate \o <<"-">>)
    THEN m.scope \o m.name \o m.version
    ELSE IF m.version # <<>> /\ m.scope = <<>> /\ m.name = <<>>
    THEN m.version \o <<"/">> \o DefaultTemplate
    ELSE m.scope \o DefaultTemplate \o <<"-">> \o m.name \o m.version

getTemplateInstallPackage(template, originalDirectory) ==
    IF template.type = "undefined" \/ (template.type = "string" /\ template.val = <<>>)
    THEN Returned(DefaultTemplate)
    ELSE IF template.type # "string" THEN Thrown   \* template.match is not a function
    ELSE LET t == template.val IN
         IF StartsWith(t, <<"f", "i", "l", "e", ":">>)
         THEN IF FilePath(t).threw THEN Thrown
              ELSE Returned(<<"f", "i", "l", "e", ":">> \o PathResolve(originalDirectory, FilePath(t).value))
         ELSE IF Includes(t, <<":", "/", "/">>) \/ IsTarball(t) THEN Returned(t)
         ELSE IF ~PackageMatch(t).matched THEN Thrown   \* packageMatch is null
         ELSE Returned(AddPrefix(PackageMatch(t)))

\* ------------------------------------------------------------ file names
PackageJson == <<"p", "a", "c", "k", "a", "g", "e", ".", "j", "s", "o", "n">>

NodeModules == <<"n", "o", "d", "e", "_", "m", "o", "d", "u", "l", "e", "s">>

ReadmeMd == <<"R", "E", "A", "D", "M", "E", ".", "m", "d">>

ReadmeOldMd == <<"R", "E", "A", "D", "M", "E", ".", "o", "l", "d", ".", "m", "d">>

validFiles ==
    { <<".", "D", "S", "_", "S", "t", "o", "r", "e">>, <<".", "g", "i", "t">>, <<".", "g", "i", "t", "a", "t", "t", "r", "i", "b", "u", "t", "e", "s">>, <<".", "g", "i", "t", "i", "g", "n", "o", "r", "e">>, <<".", "g", "i", "t", "l", "a", "b", "-", "c", "i", ".", "y", "m", "l">>,
      <<".", "h", "g">>, <<".", "h", "g", "c", "h", "e", "c", "k">>, <<".", "h", "g", "i", "g", "n", "o", "r", "e">>, <<".", "i", "d", "e", "a">>, <<".", "n", "p", "m", "i", "g", "n", "o", "r", "e">>, <<".", "t", "r", "a", "v", "i", "s", ".", "y", "m", "l">>,
      <<"d", "o", "c", "s">>, <<"L", "I", "C", "E", "N", "S", "E">>, <<"R", "E", "A", "D", "M", "E", ".", "m", "d">>, <<"m", "k", "d", "o", "c", "s", ".", "y", "m", "l">>, <<"T", "h", "u", "m", "b", "s", ".", "d", "b">> }

errorLogFilePatterns == { <<"n", "p", "m", "-", "d", "e", "b", "u", "g", ".", "l", "o", "g">>, <<"y", "a", "r", "n", "-", "e", "r", "r", "o", "r", ".", "l", "o", "g">>, <<"y", "a", "r", "n", "-", "d", "e", "b", "u", "g", ".", "l", "o", "g">> }

isErrorLog(file) == \E pattern \in errorLogFilePatterns : StartsWith(file, pattern)

\* Conflicts with the test of the ".iml" filter not negated
Conflicts_ImlOnly(entries) ==
    { file \in DOMAIN entries :
        /\ file \notin validFiles
        /\ EndsWith(file, <<".", "i", "m", "l">>)
        /\ ~isErrorLog(file) }

\* Conflicts without the filter for the error logs
Conflicts_NoErrorLogFilter(entries) ==
    { file \in DOMAIN entries :
        /\ file \notin validFiles
        /\ ~EndsWith(file, <<".", "i", "m", "l">>) }

\* Conflicts without the filter for the ".iml" files
Conflicts_NoImlFilter(entries) ==
    { file \in DOMAIN entries :
        /\ file \notin validFiles
        /\ ~isErrorLog(file) }

\* the entries readdirSync(root) gives that pass the three filters
Conflicts(entries) ==
    { file \in DOMAIN entries :
        /\ file \notin validFiles
        /\ ~EndsWith(file, <<".", "i", "m", "l">>)
        /\ ~isErrorLog(file) }

\* ------------------------------------------------------------ file contents
\* a file or directory the user had before the tool ran
UserFile == [kind |-> "user"]

\* README.md as it was before the tool ran
UserReadme == [kind |-> "user-readme"]

\* something written by the package manager (node_modules, a log, a lock file)
ManagerFile == [kind |-> "manager"]

\* a file copied from the template directory, with its text
TemplateFile(text) == [kind |-> "template", text |-> text]

EmptyMap == [x \in {} |-> <<>>]

\* object spread / Object.assign: the keys of b override those of a
Merge(a, b) ==
    [k \in DOMAIN a \cup DOMAIN b |-> IF k \in DOMAIN b THEN b[k] ELSE a[k]]

Without(f, keys) == [k \in DOMAIN f \ keys |-> f[k]]

\* ------------------------------------------------------------ the inputs
\* the <project-directory> arguments tried
DirArgs ==
    { <<"m", "y", "-", "a", "p", "p">>, <<"s", "u", "b", "/", "m", "y", "-", "a", "p", "p">>, <<"/", "s", "r", "v", "/", "m", "y", "-", "a", "p", "p">>, <<"M", "y", " ", "A", "p", "p">>, <<"@", "b", "a", "b", "e", "l", "/", "c", "o", "r", "e">>, <<"@", "b", "a", "b", "e", "l", "/", "p", "r", "e", "s", "e", "t", "-", "e", "n", "v">> }

\* the template names the help text offers after --template
TemplateNames == { <<"j", "s">>, <<"t", "s">> }

\* what the target directory can hold before the tool runs
PreExisting == { <<".", "g", "i", "t">>, <<"R", "E", "A", "D", "M", "E", ".", "m", "d">>, <<"a", "p", "p", ".", "i", "m", "l">>, <<"n", "p", "m", "-", "d", "e", "b", "u", "g", ".", "l", "o", "g">>, <<"s", "r", "c">> }

PreContent(file) == IF file = ReadmeMd THEN UserReadme ELSE UserFile

\* the template packages the registry can deliver: whether the package has a
\* template directory, the files in it with their text, and the package
\* section of its template.json
Templates ==
    { [hasDir  |-> TRUE,
       files   |-> (<<"i", "n", "d", "e", "x", ".", "j", "s">> :> <<"x">>) @@ (ReadmeMd :> <<"n", "p", "m", " ", "s", "t", "a", "r", "t", ",", " ", "n", "p", "m", " ", "r", "u", "n", " ", "d", "e", "v">>),
       package |-> (<<"s", "c", "r", "i", "p", "t", "s">> :> ((<<"s", "t", "a", "r", "t">> :> <<"n", "p", "m", " ", "r", "u", "n", " ", "d", "e", "v">>)
                                    @@ (<<"t", "e", "s", "t">> :> <<"n", "p", "m", " ", "r", "u", "n", " ", "l", "i", "n", "t", " ", "&", "&", " ", "n", "p", "m", " ", "t", "e", "s", "t">>)))
                   @@ (<<"d", "e", "v", "D", "e", "p", "e", "n", "d", "e", "n", "c", "i", "e", "s">> :> (<<"n", "o", "d", "e", "m", "o", "n">> :> <<"2", ".", "0", ".", "4">>))
                   @@ (<<"m", "a", "i", "n">> :> <<"i", "n", "d", "e", "x", ".", "j", "s">>)
                   @@ (<<"n", "a", "m", "e">> :> <<"t", "p", "l">>)],
      [hasDir  |-> TRUE,
       files   |-> (<<"i", "n", "d", "e", "x", ".", "j", "s">> :> <<"x">>),
       package |-> EmptyMap],
      [hasDir  |-> FALSE,
       files   |-> EmptyMap,
       package |-> EmptyMap] }

\* the versions the package manager resolves for what it installs
ResolvedVersion == <<"1", ".", "0", ".", "0">>

\* ------------------------------------------------------------ the state
VARIABLES
    pc,        \* where the process is
    argv,      \* the command line: dir, --template and the word after it, yarn, verbose
    template,  \* the template value handed to createApp and run
    fs,        \* directory path -> (entry name -> content), existing directories
    tpl,       \* the template package the package manager delivers
    resolved,  \* the outcome of getTemplateInstallPackage
    isOnline,  \* the outcome of checkIfOnline
    reason,    \* the rejection handed to the catch handler of run
    out,       \* what was printed, in order
    effects,   \* file system writes and child processes, in order
    exitCode   \* -1 while running, then the exit status of the process

vars == <<pc, argv, template, fs, tpl, resolved, isOnline, reason, out, effects, exitCode>>

Running == -1

\* ---------------------------------------------------- createApp's locals
isYarn == argv.yarn

verbose == argv.verbose

\* path.resolve(name)
Root(name) == PathResolve(OriginalDirectory, name)

\* path.basename(root)
Basename(p) ==
    LET segs == NormalizeSegments(SplitPath(p, <<>>, <<>>), <<>>)
    IN IF segs = <<>> THEN <<>> ELSE segs[Len(segs)]

root == Root(argv.dir.val)

appName == Basename(root)

templateToInstall == resolved.value

\* ------------------------------------------------------------ output
Line(kind, args) == [kind |-> kind, args |-> args]

Effect(op, args) == [op |-> op, args |-> args]

Printed(kind) == \E i \in 1..Len(out) : out[i].kind = kind

Did(op) == \E i \in 1..Len(effects) : effects[i].op = op

\* index of the first effect op, 0 when it did not happen
FirstIndex(op) ==
    IF Did(op) THEN CHOOSE i \in 1..Len(effects) :
                        effects[i].op = op /\ \A j \in 1..(i - 1) : effects[j].op # op
    ELSE 0

\* process.exit(code), or the end of the process
Exit(code) ==
    /\ pc' = "exit"
    /\ exitCode' = code

\* an exception nobody catches: Node prints it and exits with status 1
Uncaught(what) ==
    /\ out' = Append(out, Line("uncaught", <<what>>))
    /\ Exit(1)

\* ------------------------------------------------------------ Init
NoResult == Returned(<<>>)

NoReason == [command |-> <<>>]

Init ==
    /\ pc = "init"
    /\ argv \in [dir          : {Undefined} \cup {Str(d) : d \in DirArgs},
                 templateFlag : BOOLEAN,
                 templateArg  : {Undefined} \cup {Str(t) : t \in TemplateNames},
                 yarn         : BOOLEAN,
                 verbose      : BOOLEAN]
    /\ argv.templateFlag <=> argv.templateArg # Undefined
    /\ template = Undefined
    /\ \E existing \in BOOLEAN, files \in SUBSET PreExisting :
          /\ (argv.dir = Undefined \/ ~existing) => files = {}
          /\ fs = IF existing /\ argv.dir # Undefined
                  THEN [d \in {Root(argv.dir.val)} |-> [f \in files |-> PreContent(f)]]
                  ELSE [d \in {} |-> EmptyMap]
    /\ tpl \in Templates
    /\ resolved = NoResult
    /\ isOnline = TRUE
    /\ reason = NoReason
    /\ out = <<>>
    /\ effects = <<>>
    /\ exitCode = Running

\* ------------------------------------------------------------ file system
Exists(dir) == dir \in DOMAIN fs

\* fs-extra ensureDirSync(dir): creates the directory when it is missing
EnsureDir(f, dir) == IF dir \in DOMAIN f THEN f ELSE (dir :> EmptyMap) @@ f

\* fs.writeFileSync(path.join(dir, file), content)
WriteFile(f, dir, file, content) == [f EXCEPT ![dir] = (file :> content) @@ f[dir]]

\* fs.removeSync(path.join(dir, file)) for each file of files
RemoveFiles(f, dir, files) == [f EXCEPT ![dir] = Without(f[dir], files)]

\* fs.removeSync(dir)
RemoveDir(f, dir) == [d \in DOMAIN f \ {dir} |-> f[d]]

\* ------------------------------------------------------------ init
\* commander: --template is declared without an argument, so the option is
\* true when the flag is given and undefined when it is not
OptionTemplate == IF argv.templateFlag THEN BoolTrue ELSE Undefined

init ==
    /\ pc = "init"
    /\ IF argv.dir = Undefined
       THEN /\ out' = Append(out, Line("specify-directory", <<>>))
            /\ Exit(1)
            /\ UNCHANGED template
       ELSE /\ template' = OptionTemplate
            /\ pc' = "checkAppName"
            /\ UNCHANGED <<out, exitCode>>
    /\ UNCHANGED <<argv, fs, tpl, resolved, isOnline, reason, effects>>

\* ------------------------------------------------------------ checkAppName
\* validate-npm-package-name, validForNewPackages: no capital letters, only
\* URL-friendly characters, no leading "." or "_", no core module name
UrlFriendly ==
    { "a", "b", "c", "d", "e", "f", "g", "h", "i", "j", "k", "l", "m", "n", "o", "p",
      "q", "r", "s", "t", "u", "v", "w", "x", "y", "z", "0", "1", "2", "3", "4", "5",
      "6", "7", "8", "9", "-", "_", ".", "~", "!", "*", "'", "(", ")" }

NewPackageFriendly == UrlFriendly \ { "~", "!", "*", "'", "(", ")" }

ValidForNewPackages(name) ==
    /\ name # <<>>
    /\ Head(name) \notin {".", "_"}
    /\ \A i \in 1..Len(name) : name[i] \in NewPackageFriendly
    /\ name \notin { <<"n", "o", "d", "e", "_", "m", "o", "d", "u", "l", "e", "s">>, <<"f", "a", "v", "i", "c", "o", "n", ".", "i", "c", "o">>, <<"h", "t", "t", "p">>, <<"f", "s">>, <<"p", "a", "t", "h">> }

\* the packages the tool installs itself
BabelDependencies == << <<"@", "b", "a", "b", "e", "l", "/", "c", "o", "r", "e">>, <<"@", "b", "a", "b", "e", "l", "/", "p", "r", "e", "s", "e", "t", "-", "e", "n", "v">> >>

SeqToSet(s) == { s[i] : i \in 1..Len(s) }

\* checkAppName reporting an invalid name without process.exit(1)
checkAppName_NoExit ==
    /\ pc = "checkAppName"
    /\ effects' = Append(effects, Effect("validate", <<appName>>))
    /\ out' = IF ~ValidForNewPackages(appName)
              THEN Append(out, Line("naming-restrictions", <<appName>>)) ELSE out
    /\ pc' = "ensureDir"
    /\ UNCHANGED <<argv, template, fs, tpl, resolved, isOnline, reason, exitCode>>

checkAppName ==
    /\ pc = "checkAppName"
    /\ effects' = Append(effects, Effect("validate", <<appName>>))
    /\ IF ~ValidForNewPackages(appName)
       THEN /\ out' = Append(out, Line("naming-restrictions", <<appName>>))
            /\ Exit(1)
       ELSE IF appName \in SeqToSet(BabelDependencies)
       THEN /\ out' = Append(out, Line("dependency-name", <<appName>>))
            /\ Exit(1)
       ELSE /\ pc' = "ensureDir"
            /\ UNCHANGED <<out, exitCode>>
    /\ UNCHANGED <<argv, template, fs, tpl, resolved, isOnline, reason>>

\* ------------------------------------------------------------ createApp
\* ensureDirSync(appName): the base name, taken relative to the working directory
ensureDir ==
    /\ pc = "ensureDir"
    /\ fs' = EnsureDir(fs, PathResolve(OriginalDirectory, appName))
    /\ effects' = Append(effects, Effect("mkdir", <<PathResolve(OriginalDirectory, appName)>>))
    /\ pc' = "isSafe"
    /\ UNCHANGED <<argv, template, tpl, resolved, isOnline, reason, out, exitCode>>

\* isSafeToCreateProjectIn without the removal of the error logs
isSafeToCreateProjectIn_KeepsLogs ==
    /\ pc = "isSafe"
    /\ IF ~Exists(root)
       THEN /\ Uncaught(<<"E", "N", "O", "E", "N", "T">>)
            /\ UNCHANGED effects
       ELSE IF Conflicts(fs[root]) # {}
       THEN /\ out' = Append(out, Line("conflicts", <<Conflicts(fs[root])>>))
            /\ Exit(1)
            /\ UNCHANGED effects
       ELSE /\ effects' = Append(effects, Effect("safe", <<root>>))
            /\ pc' = "writeManifest"
            /\ UNCHANGED <<out, exitCode>>
    /\ UNCHANGED <<argv, template, fs, tpl, resolved, isOnline, reason>>

\* isSafeToCreateProjectIn(root, appName) and the exit of createApp on false
isSafeToCreateProjectIn ==
    /\ pc = "isSafe"
    /\ IF ~Exists(root)
       THEN /\ Uncaught(<<"E", "N", "O", "E", "N", "T">>)        \* readdirSync(root) throws
            /\ UNCHANGED <<fs, effects>>
       ELSE IF Conflicts(fs[root]) # {}
       THEN /\ out' = Append(out, Line("conflicts", <<Conflicts(fs[root])>>))
            /\ Exit(1)
            /\ UNCHANGED <<fs, effects>>
       ELSE /\ fs' = RemoveFiles(fs, root, { f \in DOMAIN fs[root] : isErrorLog(f) })
            /\ effects' = effects
                  \o (IF \E f \in DOMAIN fs[root] : isErrorLog(f)
                      THEN << Effect("remove-logs", <<root>>) >> ELSE <<>>)
                  \o << Effect("safe", <<root>>) >>
            /\ pc' = "writeManifest"
            /\ UNCHANGED <<out, exitCode>>
    /\ UNCHANGED <<argv, template, tpl, resolved, isOnline, reason>>

\* the object createApp writes as the first package.json
InitialManifest ==
    [kind |-> "manifest",
     json |-> (<<"n", "a", "m", "e">> :> appName) @@ (<<"v", "e", "r", "s", "i", "o", "n">> :> <<"1", ".", "0", ".", "0">>) @@ (<<"p", "r", "i", "v", "a", "t", "e">> :> TRUE)]

writeManifest ==
    /\ pc = "writeManifest"
    /\ fs' = WriteFile(fs, root, PackageJson, InitialManifest)
    /\ effects' = Append(effects, Effect("write-manifest", <<root>>))
    /\ out' = out \o << Line("using", <<IF isYarn THEN <<"Y", "a", "r", "n">> ELSE <<"N", "P", "M">>>>),
                        Line("creating", <<root>>) >>
    /\ pc' = "canNpmReadCWD"
    /\ UNCHANGED <<argv, template, tpl, resolved, isOnline, reason, exitCode>>

\* process.chdir(root), then canNpmReadCWD() when npm is used: whether
\* `npm config list` reports the working directory is the environment's choice
canNpmReadCWD ==
    /\ pc = "canNpmReadCWD"
    /\ \E readable \in BOOLEAN :
          IF ~isYarn /\ ~readable
          THEN /\ out' = Append(out, Line("npm-cwd", <<root>>))
               /\ Exit(1)
          ELSE /\ (isYarn => readable)
               /\ pc' = "run"
               /\ UNCHANGED <<out, exitCode>>
    /\ UNCHANGED <<argv, template, fs, tpl, resolved, isOnline, reason, effects>>

\* ------------------------------------------------------------ run
\* run evaluates getTemplateInstallPackage(template, originalDirectory) before
\* any promise exists, so an exception of it is caught by nobody
run ==
    /\ pc = "run"
    /\ LET r == getTemplateInstallPackage(template, OriginalDirectory) IN
       IF r.threw
       THEN /\ Uncaught(<<"T", "y", "p", "e", "E", "r", "r", "o", "r">>)
            /\ UNCHANGED resolved
       ELSE /\ resolved' = r
            /\ out' = Append(out, Line("installing-packages", <<>>))
            /\ pc' = "checkIfOnline"
            /\ UNCHANGED exitCode
    /\ UNCHANGED <<argv, template, fs, tpl, isOnline, reason, effects>>

\* checkIfOnline(isYarn): with npm true at once; with Yarn the result of the
\* DNS lookup. When the lookup fails the callback calls getProxy, which the
\* module does not define: a ReferenceError in a callback, caught by nobody
checkIfOnline ==
    /\ pc = "checkIfOnline"
    /\ \E lookupFails \in BOOLEAN :
          IF isYarn /\ lookupFails
          THEN /\ Uncaught(<<"R", "e", "f", "e", "r", "e", "n", "c", "e", "E", "r", "r", "o", "r">>)
               /\ UNCHANGED isOnline
          ELSE /\ (~isYarn => ~lookupFails)
               /\ isOnline' = TRUE
               /\ pc' = "install"
               /\ UNCHANGED <<out, exitCode>>
    /\ UNCHANGED <<argv, template, fs, tpl, resolved, reason, effects>>

\* ------------------------------------------------------------ install
Command == IF isYarn THEN <<"y", "a", "r", "n", "p", "k", "g">> ELSE <<"n", "p", "m">>

\* InstallArgs with the Yarn arguments lacking --exact
InstallArgs_NoExact(dependencies) ==
    ( IF isYarn
      THEN << <<"a", "d", "d">> >>
           \o (IF ~isOnline THEN << <<"-", "-", "o", "f", "f", "l", "i", "n", "e">> >> ELSE <<>>)
           \o dependencies
           \o << <<"-", "-", "c", "w", "d">>, root >>
      ELSE << <<"i", "n", "s", "t", "a", "l", "l">>, <<"-", "-", "n", "o", "-", "a", "u", "d", "i", "t">>, <<"-", "-", "s", "a", "v", "e", "-", "e", "x", "a", "c", "t">>, <<"-", "-", "l", "o", "g", "l", "e", "v", "e", "l">>, <<"e", "r", "r", "o", "r">> >>
           \o dependencies )
    \o (IF verbose THEN << <<"-", "-", "v", "e", "r", "b", "o", "s", "e">> >> ELSE <<>>)

\* the argument list install(root, isYarn, dependencies, verbose, isOnline) builds
InstallArgs(dependencies) ==
    ( IF isYarn
      THEN << <<"a", "d", "d">>, <<"-", "-", "e", "x", "a", "c", "t">> >>
           \o (IF ~isOnline THEN << <<"-", "-", "o", "f", "f", "l", "i", "n", "e">> >> ELSE <<>>)
           \o dependencies
           \o << <<"-", "-", "c", "w", "d">>, root >>
      ELSE << <<"i", "n", "s", "t", "a", "l", "l">>, <<"-", "-", "n", "o", "-", "a", "u", "d", "i", "t">>, <<"-", "-", "s", "a", "v", "e", "-", "e", "x", "a", "c", "t">>, <<"-", "-", "l", "o", "g", "l", "e", "v", "e", "l">>, <<"e", "r", "r", "o", "r">> >>
           \o dependencies )
    \o (IF verbose THEN << <<"-", "-", "v", "e", "r", "b", "o", "s", "e">> >> ELSE <<>>)

allDependencies == BabelDependencies \o <<templateToInstall>>

\* the lock file and the error log of the package manager in use
LockFile == IF isYarn THEN <<"y", "a", "r", "n", ".", "l", "o", "c", "k">> ELSE <<"p", "a", "c", "k", "a", "g", "e", "-", "l", "o", "c", "k", ".", "j", "s", "o", "n">>

ErrorLog == IF isYarn THEN <<"y", "a", "r", "n", "-", "e", "r", "r", "o", "r", ".", "l", "o", "g">> ELSE <<"n", "p", "m", "-", "d", "e", "b", "u", "g", ".", "l", "o", "g">>

\* obj[key] || {}
GetMap(obj, key) == IF key \in DOMAIN obj THEN obj[key] ELSE EmptyMap

\* the package manager saving packages into the dependencies of a manifest
SaveDependencies(manifest, added) ==
    [manifest EXCEPT !.json =
        (<<"d", "e", "p", "e", "n", "d", "e", "n", "c", "i", "e", "s">> :> Merge(GetMap(manifest.json, <<"d", "e", "p", "e", "n", "d", "e", "n", "c", "i", "e", "s">>), added)) @@ @]

\* the package manager removing a package from the dependencies of a manifest
DropDependency(manifest, name) ==
    [manifest EXCEPT !.json =
        (<<"d", "e", "p", "e", "n", "d", "e", "n", "c", "i", "e", "s">> :> Without(GetMap(manifest.json, <<"d", "e", "p", "e", "n", "d", "e", "n", "c", "i", "e", "s">>), {name})) @@ @]

\* what a successful install leaves in the project directory
Installed(entries, added) ==
    (NodeModules :> ManagerFile)
    @@ (LockFile :> ManagerFile)
    @@ (PackageJson :> SaveDependencies(entries[PackageJson], added))
    @@ entries

\* what a failed install can leave: any of node_modules and an error log
Leftovers == SUBSET {NodeModules, ErrorLog}

\* install(...) in the promise chain of run: the child's exit status is the
\* environment's choice; a non-zero status rejects with the command line
install ==
    /\ pc = "install"
    /\ out' = Append(out, Line("installing", <<templateToInstall>>))
    /\ LET cmd == <<Command>> \o InstallArgs(allDependencies) IN
       \/ /\ fs' = [fs EXCEPT ![root] =
                      Installed(@, [d \in SeqToSet(allDependencies) |-> ResolvedVersion])]
          /\ effects' = Append(effects, Effect("spawn-install", cmd))
          /\ pc' = "initializeTemplate"
          /\ UNCHANGED reason
       \/ \E left \in Leftovers :
             /\ fs' = [fs EXCEPT ![root] = [f \in left |-> ManagerFile] @@ @]
             /\ effects' = effects \o << Effect("spawn-install", cmd), Effect("child-failed", cmd) >>
             /\ reason' = [command |-> cmd]
             /\ pc' = "catch"
    /\ UNCHANGED <<argv, template, tpl, resolved, isOnline, exitCode>>

\* ------------------------------------------------------------ catch of run
\* knownGeneratedFiles without node_modules
knownGeneratedFiles_OnlyManifest == {PackageJson}

knownGeneratedFiles == {PackageJson, NodeModules}

\* AfterCleanup removing the directory whatever remains in it
AfterCleanup_AlwaysRemoves(f, dir) == RemoveDir(f, dir)

\* the file system after the cleanup of the catch handler: the generated
\* files are deleted, and the directory too when nothing remains in it
AfterCleanup(f, dir) ==
    LET cleaned == RemoveFiles(f, dir, DOMAIN f[dir] \cap knownGeneratedFiles)
    IN IF DOMAIN cleaned[dir] = {} THEN RemoveDir(cleaned, dir) ELSE cleaned

\* the handler of .catch in run: report, delete the generated files, remove
\* the project directory when nothing remains in it, exit with status 1
catch ==
    /\ pc = "catch"
    /\ LET generated == DOMAIN fs[root] \cap knownGeneratedFiles
       IN /\ fs' = AfterCleanup(fs, root)
          /\ out' = out
                \o << Line("aborting", <<>>) >>
                \o (IF reason.command # <<>>
                    THEN << Line("has-failed", reason.command) >>
                    ELSE << Line("unexpected-error", <<>>) >>)
                \o (IF PackageJson \in generated THEN << Line("deleting", <<PackageJson>>) >> ELSE <<>>)
                \o (IF NodeModules \in generated THEN << Line("deleting", <<NodeModules>>) >> ELSE <<>>)
                \o (IF root \notin DOMAIN AfterCleanup(fs, root)
                    THEN << Line("deleting-directory", <<root>>) >> ELSE <<>>)
                \o << Line("done", <<>>) >>
          /\ effects' = Append(effects, Effect("cleanup", <<root>>))
    /\ Exit(1)
    /\ UNCHANGED <<argv, template, tpl, resolved, isOnline, reason>>

\* ------------------------------------------------------------ initializeTemplate
RECURSIVE ReplaceNpm(_, _)
\* s.replace(/(npm run |npm )/, 'yarn ') when global is FALSE: the first
\* occurrence only; s.replace(/(npm run |npm )/g, 'yarn ') when it is TRUE
ReplaceNpm(s, global) ==
    IF s = <<>> THEN <<>>
    ELSE IF StartsWith(s, <<"n", "p", "m", " ", "r", "u", "n", " ">>)
    THEN <<"y", "a", "r", "n", " ">> \o (IF global THEN ReplaceNpm(Drop(s, 8), global) ELSE Drop(s, 8))
    ELSE IF StartsWith(s, <<"n", "p", "m", " ">>)
    THEN <<"y", "a", "r", "n", " ">> \o (IF global THEN ReplaceNpm(Drop(s, 4), global) ELSE Drop(s, 4))
    ELSE <<Head(s)>> \o ReplaceNpm(Tail(s), global)

templateName == templateToInstall

\* require.resolve(`${templateName}/package.json`, { paths: [appPath] }) finds
\* the package when the identifier that was installed is a package name
Resolvable(name) ==
    /\ ~StartsWith(name, <<"f", "i", "l", "e", ":">>)
    /\ ~Includes(name, <<":", "/", "/">>)
    /\ ~IsTarball(name)
    /\ \A i \in 2..Len(name) : name[i] # "@"

\* the start of initializeTemplate up to the template path; checkNodeVersion
\* before it returns at once, node_modules/package.json not being a file a
\* package manager writes
resolveTemplate ==
    /\ pc = "initializeTemplate"
    /\ IF templateName = <<>>
       THEN /\ out' = Append(out, Line("no-template", <<>>))
            /\ Exit(0)
            /\ UNCHANGED <<reason, effects>>
       ELSE IF ~Resolvable(templateName)
       THEN /\ reason' = NoReason
            /\ effects' = Append(effects, Effect("threw", <<templateName>>))
            /\ pc' = "catch"
            /\ UNCHANGED <<out, exitCode>>
       ELSE /\ effects' = Append(effects, Effect("resolve-template", <<templateName>>))
            /\ pc' = "mergeManifest"
            /\ UNCHANGED <<out, reason, exitCode>>
    /\ UNCHANGED <<argv, template, fs, tpl, resolved, isOnline>>

\* templateJson.package || {}
templatePackage == tpl.package

templatePackageBlacklist ==
    { <<"n", "a", "m", "e">>, <<"v", "e", "r", "s", "i", "o", "n">>, <<"d", "e", "s", "c", "r", "i", "p", "t", "i", "o", "n">>, <<"k", "e", "y", "w", "o", "r", "d", "s">>, <<"b", "u", "g", "s">>, <<"l", "i", "c", "e", "n", "s", "e">>, <<"a", "u", "t", "h", "o", "r">>,
      <<"c", "o", "n", "t", "r", "i", "b", "u", "t", "o", "r", "s">>, <<"f", "i", "l", "e", "s">>, <<"b", "r", "o", "w", "s", "e", "r">>, <<"b", "i", "n">>, <<"m", "a", "n">>, <<"d", "i", "r", "e", "c", "t", "o", "r", "i", "e", "s">>,
      <<"r", "e", "p", "o", "s", "i", "t", "o", "r", "y">>, <<"p", "e", "e", "r", "D", "e", "p", "e", "n", "d", "e", "n", "c", "i", "e", "s">>, <<"b", "u", "n", "d", "l", "e", "d", "D", "e", "p", "e", "n", "d", "e", "n", "c", "i", "e", "s">>,
      <<"o", "p", "t", "i", "o", "n", "a", "l", "D", "e", "p", "e", "n", "d", "e", "n", "c", "i", "e", "s">>, <<"e", "n", "g", "i", "n", "e", "S", "t", "r", "i", "c", "t">>, <<"o", "s">>, <<"c", "p", "u">>, <<"p", "r", "e", "f", "e", "r", "G", "l", "o", "b", "a", "l">>,
      <<"p", "r", "i", "v", "a", "t", "e">>, <<"p", "u", "b", "l", "i", "s", "h", "C", "o", "n", "f", "i", "g">> }

templatePackageToMerge == { <<"d", "e", "p", "e", "n", "d", "e", "n", "c", "i", "e", "s">>, <<"s", "c", "r", "i", "p", "t", "s">> }

\* templatePackageToReplace without the test of the ignored keys
templatePackageToReplace_NoBlacklist ==
    { key \in DOMAIN templatePackage : key \notin templatePackageToMerge }

templatePackageToReplace ==
    { key \in DOMAIN templatePackage :
        key \notin templatePackageBlacklist /\ key \notin templatePackageToMerge }

\* the scripts written to the manifest
MergedScripts ==
    LET templateScripts == GetMap(templatePackage, <<"s", "c", "r", "i", "p", "t", "s">>)
    IN IF isYarn
       THEN [k \in DOMAIN templateScripts |-> ReplaceNpm(templateScripts[k], FALSE)]
       ELSE templateScripts

\* appPackage after the merge with templatePackage
MergedPackage(appPackage) ==
    [key \in templatePackageToReplace |-> templatePackage[key]]
    @@ (<<"s", "c", "r", "i", "p", "t", "s">> :> MergedScripts)
    @@ (<<"d", "e", "p", "e", "n", "d", "e", "n", "c", "i", "e", "s">> :> GetMap(appPackage, <<"d", "e", "p", "e", "n", "d", "e", "n", "c", "i", "e", "s">>))
    @@ appPackage

\* the manifest the project directory holds
appPackageOnDisk == fs[root][PackageJson].json

\* mergeManifest without the write of the merged package.json
mergeManifest_NoWrite ==
    /\ pc = "mergeManifest"
    /\ pc' = "renameReadme"
    /\ UNCHANGED <<argv, template, fs, tpl, resolved, isOnline, reason, out, effects, exitCode>>

mergeManifest ==
    /\ pc = "mergeManifest"
    /\ fs' = WriteFile(fs, root, PackageJson,
                       [kind |-> "manifest", json |-> MergedPackage(appPackageOnDisk)])
    /\ effects' = Append(effects, Effect("write-merged-manifest", <<root>>))
    /\ pc' = "renameReadme"
    /\ UNCHANGED <<argv, template, tpl, resolved, isOnline, reason, out, exitCode>>

\* renameReadme without the rename
renameReadme_Skipped ==
    /\ pc = "renameReadme"
    /\ pc' = "copyTemplate"
    /\ UNCHANGED <<argv, template, fs, tpl, resolved, isOnline, reason, out, effects, exitCode>>

\* fs.renameSync(README.md, README.old.md) when README.md exists
renameReadme ==
    /\ pc = "renameReadme"
    /\ IF ReadmeMd \in DOMAIN fs[root]
       THEN /\ fs' = [fs EXCEPT ![root] =
                        (ReadmeOldMd :> fs[root][ReadmeMd]) @@ Without(@, {ReadmeMd})]
            /\ effects' = Append(effects, Effect("rename-readme", <<root>>))
       ELSE UNCHANGED <<fs, effects>>
    /\ pc' = "copyTemplate"
    /\ UNCHANGED <<argv, template, tpl, resolved, isOnline, reason, out, exitCode>>

\* fs.copySync(templateDir, appPath): every file of the template directory is
\* written over what the project directory holds under that name
Copied(entries) == [f \in DOMAIN tpl.files |-> TemplateFile(tpl.files[f])] @@ entries

\* the copy of the template directory: without the directory an error is
\* printed and initializeTemplate returns; copySync can throw
copyTemplate ==
    /\ pc = "copyTemplate"
    /\ IF tpl.hasDir
       THEN \/ /\ fs' = [fs EXCEPT ![root] = Copied(@)]
               /\ effects' = Append(effects, Effect("copy-template", <<root>>))
               /\ pc' = "yarnReadme"
               /\ UNCHANGED <<out, reason, exitCode>>
            \/ /\ reason' = NoReason
               /\ effects' = Append(effects, Effect("threw", <<root>>))
               /\ pc' = "catch"
               /\ UNCHANGED <<fs, out, exitCode>>
       ELSE /\ out' = Append(out, Line("template-not-located", <<templateName>>))
            /\ Exit(0)
            /\ UNCHANGED <<fs, reason, effects>>
    /\ UNCHANGED <<argv, template, tpl, resolved, isOnline>>

\* with Yarn README.md is read and written back with its npm commands
\* replaced; a missing README.md is an error that is silenced
yarnReadme ==
    /\ pc = "yarnReadme"
    /\ IF isYarn /\ ReadmeMd \in DOMAIN fs[root]
       THEN fs' = [fs EXCEPT ![root][ReadmeMd].text = ReplaceNpm(@, TRUE)]
       ELSE UNCHANGED fs
    /\ pc' = "installTemplateDeps"
    /\ UNCHANGED <<argv, template, tpl, resolved, isOnline, reason, out, effects, exitCode>>

isBabelInstalled(appPackage) ==
    LET dependencies == GetMap(appPackage, <<"d", "e", "p", "e", "n", "d", "e", "n", "c", "i", "e", "s">>)
    IN /\ <<"@", "b", "a", "b", "e", "l", "/", "c", "o", "r", "e">> \in DOMAIN dependencies
       /\ ~( <<"@", "b", "a", "b", "e", "l", "/", "p", "r", "e", "s", "e", "t", "-", "e", "n", "v">> \in DOMAIN dependencies
             /\ dependencies[<<"@", "b", "a", "b", "e", "l", "/", "p", "r", "e", "s", "e", "t", "-", "e", "n", "v">>] = <<"u", "n", "d", "e", "f", "i", "n", "e", "d">> )

RECURSIVE SetToSeq(_)
\* the elements of a set in some order
SetToSeq(S) == IF S = {} THEN <<>> ELSE LET x == CHOOSE y \in S : TRUE IN <<x>> \o SetToSeq(S \ {x})

\* { ...templatePackage.dependencies, ...templatePackage.devDependencies }
templateDependencies ==
    Merge(GetMap(templatePackage, <<"d", "e", "p", "e", "n", "d", "e", "n", "c", "i", "e", "s">>), GetMap(templatePackage, <<"d", "e", "v", "D", "e", "p", "e", "n", "d", "e", "n", "c", "i", "e", "s">>))

\* the `${name}@${version}` arguments
dependenciesToInstall ==
    LET names == SetToSeq(DOMAIN templateDependencies)
    IN [i \in 1..Len(names) |-> names[i] \o <<"@">> \o templateDependencies[names[i]]]

\* args of the template dependency install, before and after the additions
BaseArgs ==
    IF isYarn THEN << <<"a", "d", "d">> >>
    ELSE << <<"i", "n", "s", "t", "a", "l", "l">>, <<"-", "-", "n", "o", "-", "a", "u", "d", "i", "t">>, <<"-", "-", "s", "a", "v", "e">> >> \o (IF verbose THEN << <<"-", "-", "v", "e", "r", "b", "o", "s", "e">> >> ELSE <<>>)

TemplateArgs(appPackage) ==
    BaseArgs
    \o dependenciesToInstall
    \o (IF ~isBabelInstalled(appPackage) THEN BabelDependencies ELSE <<>>)

\* whether the template dependency install is started
InstallsTemplateDeps(appPackage) ==
    /\ (~isBabelInstalled(appPackage) \/ templateName # <<>>)
    /\ Len(TemplateArgs(appPackage)) > 1

\* the packages a successful template dependency install saves
TemplateSaved(appPackage) ==
    Merge(templateDependencies,
          IF ~isBabelInstalled(appPackage)
          THEN [d \in SeqToSet(BabelDependencies) |-> ResolvedVersion] ELSE EmptyMap)

\* installTemplateDeps without the return after a failed install
installTemplateDeps_NoReturn ==
    /\ pc = "installTemplateDeps"
    /\ LET appPackage == appPackageOnDisk
           cmd == <<Command>> \o TemplateArgs(appPackage)
       IN IF InstallsTemplateDeps(appPackage)
          THEN \/ /\ fs' = [fs EXCEPT ![root][PackageJson] =
                              SaveDependencies(@, TemplateSaved(appPackage))]
                  /\ effects' = Append(effects, Effect("spawn-template-install", cmd))
                  /\ out' = Append(out, Line("installing-template-dependencies", <<Command>>))
               \/ /\ out' = out \o << Line("installing-template-dependencies", <<Command>>),
                                      Line("failed", cmd) >>
                  /\ effects' = effects \o << Effect("spawn-template-install", cmd),
                                              Effect("child-failed", cmd) >>
                  /\ UNCHANGED fs
          ELSE UNCHANGED <<fs, out, effects>>
    /\ pc' = "removeTemplate"
    /\ UNCHANGED <<argv, template, tpl, resolved, isOnline, reason, exitCode>>

installTemplateDeps ==
    /\ pc = "installTemplateDeps"
    /\ LET appPackage == appPackageOnDisk
           cmd == <<Command>> \o TemplateArgs(appPackage)
       IN IF InstallsTemplateDeps(appPackage)
          THEN /\ \/ /\ fs' = [fs EXCEPT ![root][PackageJson] =
                                 SaveDependencies(@, TemplateSaved(appPackage))]
                     /\ effects' = Append(effects, Effect("spawn-template-install", cmd))
                     /\ out' = Append(out, Line("installing-template-dependencies", <<Command>>))
                     /\ pc' = "removeTemplate"
                     /\ UNCHANGED exitCode
                  \/ /\ out' = out \o << Line("installing-template-dependencies", <<Command>>),
                                         Line("failed", cmd) >>
                     /\ effects' = effects \o << Effect("spawn-template-install", cmd),
                                                 Effect("child-failed", cmd) >>
                     /\ Exit(0)
                     /\ UNCHANGED fs
          ELSE /\ pc' = "removeTemplate"
               /\ UNCHANGED <<fs, out, effects, exitCode>>
    /\ UNCHANGED <<argv, template, tpl, resolved, isOnline, reason>>

RemoveWord == IF isYarn THEN <<"r", "e", "m", "o", "v", "e">> ELSE <<"u", "n", "i", "n", "s", "t", "a", "l", "l">>

\* removeTemplate without the return after a failed removal
removeTemplate_NoReturn ==
    /\ pc = "removeTemplate"
    /\ LET cmd == <<Command, RemoveWord, templateName>> IN
       \/ /\ fs' = [fs EXCEPT ![root][PackageJson] = DropDependency(@, templateName)]
          /\ effects' = Append(effects, Effect("spawn-remove", cmd))
          /\ out' = Append(out, Line("removing-template", <<Command>>))
       \/ /\ out' = out \o << Line("removing-template", <<Command>>), Line("failed", cmd) >>
          /\ effects' = effects \o << Effect("spawn-remove", cmd), Effect("child-failed", cmd) >>
          /\ UNCHANGED fs
    /\ pc' = "success"
    /\ UNCHANGED <<argv, template, tpl, resolved, isOnline, reason, exitCode>>

removeTemplate ==
    /\ pc = "removeTemplate"
    /\ LET cmd == <<Command, RemoveWord, templateName>> IN
       \/ /\ fs' = [fs EXCEPT ![root][PackageJson] = DropDependency(@, templateName)]
          /\ effects' = Append(effects, Effect("spawn-remove", cmd))
          /\ out' = Append(out, Line("removing-template", <<Command>>))
          /\ pc' = "success"
          /\ UNCHANGED exitCode
       \/ /\ out' = out \o << Line("removing-template", <<Command>>), Line("failed", cmd) >>
          /\ effects' = effects \o << Effect("spawn-remove", cmd), Effect("child-failed", cmd) >>
          /\ Exit(0)
          /\ UNCHANGED fs
    /\ UNCHANGED <<argv, template, tpl, resolved, isOnline, reason>>

\* the end of initializeTemplate: the success message, and the process ends
success ==
    /\ pc = "success"
    /\ out' = Append(out, Line("success", <<appName, root>>))
    /\ Exit(0)
    /\ UNCHANGED <<argv, template, fs, tpl, resolved, isOnline, reason, effects>>

\* ------------------------------------------------------------ the process
Next ==
    \/ init
    \/ checkAppName
    \/ ensureDir
    \/ isSafeToCreateProjectIn
    \/ writeManifest
    \/ canNpmReadCWD
    \/ run
    \/ checkIfOnline
    \/ install
    \/ resolveTemplate
    \/ mergeManifest
    \/ renameReadme
    \/ copyTemplate
    \/ yarnReadme
    \/ installTemplateDeps
    \/ removeTemplate
    \/ success
    \/ catch

Spec == Init /\ [][Next]_vars

\* ------------------------------------------------------------------------
\* getTemplateInstallPackage on its own: the function is exported, and is
\* applied here to every template value of a bounded set
\* ------------------------------------------------------------------------
RawAlphabet == {"@", "/", "a", "-", "\n"}

RawStrings == UNION { [1..n -> RawAlphabet] : n \in 0..MaxLen }

ScopeParts == { <<>>, <<"@", "s", "/">>, <<"@", "h", "a", "c", "k", "e", "r", "m", "a", "n", "s", "/">> }

NameParts == { <<>>, <<"t", "s">>, <<"c", "b", "a", "-", "t", "e", "m", "p", "l", "a", "t", "e">>, <<"c", "b", "a", "-", "t", "e", "m", "p", "l", "a", "t", "e", "-", "t", "s">>, <<"c", "b", "a", "-", "t", "e", "m", "p", "l", "a", "t", "e", "s">> }

VersionParts == { <<>>, <<"@", "1", ".", "0">>, <<"@">> }

ComposedStrings == { s \o n \o v : s \in ScopeParts, n \in NameParts, v \in VersionParts }

PathStrings ==
    { <<"f", "i", "l", "e", ":">>, <<"f", "i", "l", "e", ":", "a">>, <<"f", "i", "l", "e", ":", ".", ".", "/", "t">>, <<"f", "i", "l", "e", ":", "/", "t", "/", ".", "/", "a">>, <<"f", "i", "l", "e", ":", "a", "\n", "b">>,
      <<"a", ":", "/", "/", "b">>, <<"x", ".", "t", "g", "z">>, <<"x", ".", "t", "a", "r", ".", "g", "z">>, <<".", "t", "g", "z">>, <<"@", "s", "/", "x", ".", "t", "g", "z">>, <<"x", ".", "t", "g", "z", "@", "1", ".", "0">> }

TemplateValues ==
    {Undefined, BoolTrue} \cup { Str(s) : s \in RawStrings \cup ComposedStrings \cup PathStrings }

InitNorm ==
    /\ pc = "getTemplateInstallPackage"
    /\ argv = [dir |-> Undefined, templateFlag |-> FALSE, templateArg |-> Undefined,
               yarn |-> FALSE, verbose |-> FALSE]
    /\ template \in TemplateValues
    /\ fs = [d \in {} |-> EmptyMap]
    /\ tpl = [hasDir |-> FALSE, files |-> EmptyMap, package |-> EmptyMap]
    /\ resolved = NoResult
    /\ isOnline = TRUE
    /\ reason = NoReason
    /\ out = <<>>
    /\ effects = <<>>
    /\ exitCode = Running

\* one call of getTemplateInstallPackage(template, originalDirectory)
callGetTemplateInstallPackage ==
    /\ pc = "getTemplateInstallPackage"
    /\ resolved' = getTemplateInstallPackage(template, OriginalDirectory)
    /\ pc' = "returned"
    /\ UNCHANGED <<argv, template, fs, tpl, isOnline, reason, out, effects, exitCode>>

NextNorm == callGetTemplateInstallPackage

SpecNorm == InitNorm /\ [][NextNorm]_vars

\* ------------------------------------------------------------------------
\* The claims
\* ------------------------------------------------------------------------
\* "@scope/": "@", one or more characters other than "/", and "/"
IsScope(s) ==
    /\ Len(s) >= 3
    /\ s[1] = "@"
    /\ s[Len(s)] = "/"
    /\ \A i \in 2..(Len(s) - 1) : s[i] # "/"

\* NAME: one or more characters other than "@"
IsName(s) == s # <<>> /\ \A i \in 1..Len(s) : s[i] # "@"

\* "@version": "@" and one or more characters of one line
IsVersion(s) == Len(s) >= 2 /\ s[1] = "@" /\ DotAll(Tail(s))

\* the ways to read t as [@scope/] NAME? [@version]
Readings(t) ==
    { r \in { [scope   |-> SubSeq(t, 1, i),
               name    |-> SubSeq(t, i + 1, j),
               version |-> SubSeq(t, j + 1, Len(t))] : i \in 0..Len(t), j \in 0..Len(t) } :
        /\ Len(r.scope) + Len(r.name) + Len(r.version) = Len(t)
        /\ (r.scope = <<>> \/ IsScope(r.scope))
        /\ (r.name = <<>> \/ IsName(r.name))
        /\ (r.version = <<>> \/ IsVersion(r.version)) }

\* NAME carries the template prefix: it is the default template package
\* name, or that name followed by "-" and more
CarriesPrefix(name) ==
    name = DefaultTemplate \/ StartsWith(name, DefaultTemplate \o <<"-">>)

\* t is the default template package name, or that name and "-NAME", with or
\* without a scope before it and a version after it
Prefixed(t) ==
    \E i \in 0..Len(t), j \in 0..Len(t) :
        /\ i <= j
        /\ (i = 0 \/ IsScope(SubSeq(t, 1, i)))
        /\ CarriesPrefix(SubSeq(t, i + 1, j))
        /\ (j = Len(t) \/ IsVersion(SubSeq(t, j + 1, Len(t))))

IsPathLike(t) == StartsWith(t, <<"f", "i", "l", "e", ":">>) \/ Includes(t, <<":", "/", "/">>) \/ IsTarball(t)

Called == pc = "returned" /\ template.type = "string"

\* C1 (as claimed): an identifier that carries the template prefix, scoped
\* and versioned or not, is returned exactly as given.
C1_PrefixedUnchanged ==
    (Called /\ Prefixed(template.val))
        => (~resolved.threw /\ resolved.value = template.val)

\* C2 (as claimed): every identifier [@scope/]NAME[@version] whose NAME does
\* not carry the prefix becomes scope + prefix + "-" + NAME + version.
C2_PrefixInserted ==
    Called =>
        \A r \in Readings(template.val) :
            (r.name # <<>> /\ ~CarriesPrefix(r.name))
                => /\ ~resolved.threw
                   /\ resolved.value = r.scope \o DefaultTemplate \o <<"-">> \o r.name \o r.version

\* C2 (amended): every identifier [@scope/]NAME[@version] that is not a
\* "file:" path, a URL or a tarball name, and whose NAME does not carry the
\* prefix, becomes scope + prefix + "-" + NAME + version.
C2_PrefixInsertedForPackages ==
    (Called /\ ~IsPathLike(template.val)) =>
        \A r \in Readings(template.val) :
            (r.name # <<>> /\ ~CarriesPrefix(r.name))
                => /\ ~resolved.threw
                   /\ resolved.value = r.scope \o DefaultTemplate \o <<"-">> \o r.name \o r.version

\* C2 witness: a scoped, versioned bare name has been normalised
C2_Witness ==
    /\ Called
    /\ template.val = <<"@", "s", "/", "t", "s", "@", "1", ".", "0">>
    /\ resolved.value = <<"@", "s", "/", "@", "h", "a", "c", "k", "e", "r", "m", "a", "n", "s", "/", "c", "b", "a", "-", "t", "e", "m", "p", "l", "a", "t", "e", "-", "t", "s", "@", "1", ".", "0">>

\* C3 (as claimed): the call never throws, whatever template value it gets,
\* and a string the scope/name/version pattern does not match is returned
\* unchanged.
C3_NeverThrows ==
    Called =>
        /\ ~resolved.threw
        /\ Readings(template.val) = {} => resolved.value = template.val

\* an entry that is not allow-listed: not in validFiles, not ending in
\* ".iml", not starting with an error log name
NotAllowListed(file) ==
    /\ file \notin validFiles
    /\ ~EndsWith(file, <<".", "i", "m", "l">>)
    /\ \A p \in { <<"n", "p", "m", "-", "d", "e", "b", "u", "g", ".", "l", "o", "g">>, <<"y", "a", "r", "n", "-", "e", "r", "r", "o", "r", ".", "l", "o", "g">>, <<"y", "a", "r", "n", "-", "d", "e", "b", "u", "g", ".", "l", "o", "g">> } : ~StartsWith(file, p)

\* the steps of createApp before the first package.json is written
BeforeManifest == pc \in {"init", "checkAppName", "ensureDir", "isSafe"}

HasConflict ==
    /\ argv.dir # Undefined
    /\ Exists(root)
    /\ \E f \in DOMAIN fs[root] : NotAllowListed(f)

\* C4: while the target directory holds an entry that is not allow-listed,
\* createApp changes no entry of it (so writes no package.json into it) and
\* can only go on to an exit with a non-zero status.
C4_ConflictAborts ==
    [][ (BeforeManifest /\ HasConflict)
            => /\ root \in DOMAIN fs'
               /\ fs'[root] = fs[root]
               /\ (BeforeManifest' \/ (pc' = "exit" /\ exitCode' # 0)) ]_vars

\* C4 witness: the run ended on the conflict report, with no package.json
C4_Witness ==
    /\ pc = "exit"
    /\ exitCode = 1
    /\ Printed("conflicts")
    /\ HasConflict
    /\ PackageJson \notin DOMAIN fs[root]

OnlyAllowListed(entries) ==
    /\ DOMAIN entries # {}
    /\ \A f \in DOMAIN entries : ~NotAllowListed(f)

\* package.json as createApp is to write it first
ExpectedManifest ==
    [kind |-> "manifest",
     json |-> (<<"n", "a", "m", "e">> :> Basename(root)) @@ (<<"v", "e", "r", "s", "i", "o", "n">> :> <<"1", ".", "0", ".", "0">>) @@ (<<"p", "r", "i", "v", "a", "t", "e">> :> TRUE)]

\* C5: on an existing, non-empty target directory with only allow-listed
\* entries isSafeToCreateProjectIn returns true, and createApp then writes
\* package.json with the base name, version 1.0.0 and private true into it.
C5_AllowListedProceeds ==
    [][ /\ (pc = "isSafe" /\ Exists(root) /\ OnlyAllowListed(fs[root]))
            => pc' = "writeManifest"
        /\ pc = "writeManifest"
            => (pc' = "canNpmReadCWD" /\ fs'[root][PackageJson] = ExpectedManifest) ]_vars

\* C5 witness: package.json was written next to an allow-listed entry
C5_Witness ==
    /\ pc = "canNpmReadCWD"
    /\ <<".", "g", "i", "t">> \in DOMAIN fs[root]
    /\ fs[root][PackageJson] = ExpectedManifest

\* the initial install failed: its rejection carries the command line
InstallFailed == reason.command # <<>>

\* C6: when the initial install failed, the project directory holds neither
\* package.json nor node_modules once the process has exited.
C6_InstallFailureCleans ==
    (pc = "exit" /\ InstallFailed)
        => (Exists(root) => /\ PackageJson \notin DOMAIN fs[root]
                            /\ NodeModules \notin DOMAIN fs[root])

\* C6 witness: the install failed leaving node_modules, which was deleted
C6_Witness ==
    /\ pc = "exit"
    /\ InstallFailed
    /\ \E i \in 1..Len(out) : out[i].kind = "deleting" /\ out[i].args = <<NodeModules>>

\* C7: the failure cleanup removes the project directory exactly when no
\* entry other than package.json and node_modules is in it; otherwise the
\* directory stays, with those other entries as they were.
C7_DirectoryRemovedIffEmpty ==
    [][ pc = "catch" =>
            LET remaining == DOMAIN fs[root] \ {PackageJson, NodeModules}
            IN /\ (root \notin DOMAIN fs') <=> (remaining = {})
               /\ remaining # {} =>
                     /\ DOMAIN fs'[root] = remaining
                     /\ \A f \in remaining : fs'[root][f] = fs[root][f] ]_vars

\* C7 witness: after a cleanup the directory is still there with an entry
C7_Witness ==
    /\ pc = "exit"
    /\ Did("cleanup")
    /\ Exists(root)
    /\ <<".", "g", "i", "t">> \in DOMAIN fs[root]
    /\ PackageJson \notin DOMAIN fs[root]

\* the failures C8 names, as the run reports them
TemplateInstallFailed == Did("child-failed") /\ Did("spawn-template-install") /\ ~Did("spawn-remove")

NamedFailure ==
    \/ Printed("naming-restrictions")
    \/ Printed("conflicts")
    \/ Printed("npm-cwd")
    \/ InstallFailed
    \/ TemplateInstallFailed
    \/ Printed("template-not-located")
    \/ Printed("unexpected-error")

\* C8 (as claimed): an invalid name, conflicting entries, npm unable to read
\* the working directory, a failed install step and a failed template copy
\* step each end the process with a non-zero status.
C8_FailuresExitNonZero == (pc = "exit" /\ NamedFailure) => exitCode # 0

\* a line of the output that names the command line cmd as failed
LoggedFailure(cmd) ==
    \E i \in 1..Len(out) : out[i].kind \in {"has-failed", "failed"} /\ out[i].args = cmd

\* C9 (as claimed): after any package-manager child exited with a non-zero
\* status, its command line is logged, package.json and node_modules are
\* deleted, the project directory is removed if left empty, and the
\* process exits.
C9_ChildFailureCleansUp ==
    \A i \in 1..Len(effects) :
        effects[i].op = "child-failed" =>
            /\ pc = "exit" \/ pc = "catch"
            /\ pc = "exit" =>
                  /\ LoggedFailure(effects[i].args)
                  /\ Exists(root) => /\ PackageJson \notin DOMAIN fs[root]
                                     /\ NodeModules \notin DOMAIN fs[root]
                                     /\ DOMAIN fs[root] # {}

\* b happened only after a did
Before(a, b) == Did(b) => (Did(a) /\ FirstIndex(a) < FirstIndex(b))

\* every two neighbours of steps are in that order
InOrder(steps) == \A i \in 1..(Len(steps) - 1) : Before(steps[i], steps[i + 1])

\* C10 (as claimed): name validation, directory creation, initial manifest
\* write, install, template resolution, copy of the template files, and
\* only then the manifest merge.
C10_ClaimedOrder ==
    InOrder(<< "validate", "mkdir", "write-manifest", "spawn-install",
               "resolve-template", "copy-template", "write-merged-manifest" >>)

\* C10 (amended): name validation, directory creation, initial manifest
\* write, install, template resolution, manifest merge, and only then the
\* copy of the template files.
C10_CodeOrder ==
    InOrder(<< "validate", "mkdir", "write-manifest", "spawn-install",
               "resolve-template", "write-merged-manifest", "copy-template" >>)

\* C10 witness: a run that got as far as copying the template files
C10_Witness == Did("copy-template") /\ Did("write-merged-manifest")

\* cmd has the argument flag
HasArg(cmd, flag) == \E i \in 2..Len(cmd) : cmd[i] = flag

\* the command line pins exact versions: --save-exact for npm, --exact for
\* yarnpkg add
PinsExact(cmd) ==
    \/ cmd[1] = <<"n", "p", "m">> /\ HasArg(cmd, <<"-", "-", "s", "a", "v", "e", "-", "e", "x", "a", "c", "t">>)
    \/ cmd[1] = <<"y", "a", "r", "n", "p", "k", "g">> /\ cmd[2] = <<"a", "d", "d">> /\ HasArg(cmd, <<"-", "-", "e", "x", "a", "c", "t">>)

\* C11 (as claimed): the initial install and the template dependency install
\* both carry the exact-version flag, with npm and with Yarn.
C11_EveryInstallPinsExact ==
    \A i \in 1..Len(effects) :
        effects[i].op \in {"spawn-install", "spawn-template-install"}
            => PinsExact(effects[i].args)

\* C11 (amended): the initial install carries the exact-version flag, with
\* npm and with Yarn.
C11_InitialInstallPinsExact ==
    \A i \in 1..Len(effects) :
        effects[i].op = "spawn-install" => PinsExact(effects[i].args)

\* C11 witness: the initial install was started with Yarn
C11_Witness == isYarn /\ Did("spawn-install")

\* the name createApp validates, from the command line alone
NameToCheck == Basename(PathResolve(OriginalDirectory, argv.dir.val))

\* C12: with a project name that fails the npm name validation, the process
\* exits with status 1 at the validation: the file system is as it was, and
\* no directory was created, no file written and no child started.
C12_InvalidNameExitsAtOnce ==
    [][ (pc \in {"init", "checkAppName"} /\ argv.dir # Undefined
            /\ ~ValidForNewPackages(NameToCheck))
          => /\ fs' = fs
             /\ \A i \in 1..Len(effects') : effects'[i].op = "validate"
             /\ (pc' = "checkAppName" \/ (pc' = "exit" /\ exitCode' = 1)) ]_vars

\* C12 witness: the run ended on the report of the naming restrictions
C12_Witness ==
    /\ pc = "exit"
    /\ exitCode = 1
    /\ Printed("naming-restrictions")
    /\ effects = << Effect("validate", << <<"M", "y", " ", "A", "p", "p">> >>) >>

\* C13: isSafeToCreateProjectIn returns false exactly when some entry of the
\* directory is not allow-listed, and the list it then reports is the set
\* of those entries.
C13_ConflictsAreTheNotAllowListed ==
    [][ (pc = "isSafe" /\ Exists(root)) =>
            LET expected == { f \in DOMAIN fs[root] : NotAllowListed(f) }
            IN /\ (pc' = "exit") <=> (expected # {})
               /\ (pc' = "writeManifest") <=> (expected = {})
               /\ expected # {} => out' = Append(out, Line("conflicts", <<expected>>)) ]_vars

\* C13 witness: a conflict was reported for a directory that also holds an
\* ".iml" file and an error log, which are not in the reported list
C13_Witness ==
    /\ pc = "exit"
    /\ Printed("conflicts")
    /\ out[Len(out)].args = << { <<"s", "r", "c">> } >>
    /\ { <<"a", "p", "p", ".", "i", "m", "l">>, <<"n", "p", "m", "-", "d", "e", "b", "u", "g", ".", "l", "o", "g">>, <<"s", "r", "c">> } \subseteq DOMAIN fs[root]

\* the lines that report a failure
ErrorLines ==
    { "uncaught", "aborting", "has-failed", "unexpected-error", "failed",
      "template-not-located", "no-template", "naming-restrictions", "dependency-name",
      "conflicts", "npm-cwd", "specify-directory", "deleting", "deleting-directory" }

\* every step of the run was done and none of them failed
EveryStepSucceeded ==
    /\ Did("spawn-install")
    /\ Did("write-merged-manifest")
    /\ Did("copy-template")
    /\ Did("spawn-remove")
    /\ ~Did("child-failed")
    /\ ~Did("threw")
    /\ ~Did("cleanup")

\* C14: the success message is printed exactly in the runs in which every
\* step succeeded; it is the last thing printed, after the installs, the
\* copy and the removal of the template package, and no failure report or
\* cleanup is in such a run.
C14_SuccessIffAllSucceeded ==
    /\ Printed("success") =>
          /\ EveryStepSucceeded
          /\ pc = "exit" /\ exitCode = 0
          /\ out[Len(out)].kind = "success"
          /\ effects[Len(effects)].op = "spawn-remove"
          /\ \A i \in 1..Len(out) : out[i].kind \notin ErrorLines
    /\ (pc = "exit" /\ EveryStepSucceeded) => Printed("success")

\* C14 witness: a run with the template dependency install printed success
C14_Witness == Printed("success") /\ Did("spawn-template-install")

\* the steps of initializeTemplate after the rename of README.md
AfterRename ==
    pc \in {"copyTemplate", "yarnReadme", "installTemplateDeps", "removeTemplate", "success"}

Times(op) == Cardinality({ i \in 1..Len(effects) : effects[i].op = op })

\* C16: each package-manager command is started at most once, and after a
\* failed child, a thrown error or a missing template directory nothing is
\* done any more but the failure cleanup.
C16_FailuresAreTerminal ==
    /\ \A op \in {"spawn-install", "spawn-template-install", "spawn-remove"} : Times(op) <= 1
    /\ \A i \in 1..Len(effects) :
          effects[i].op \in {"child-failed", "threw"}
              => /\ pc \in {"catch", "exit"}
                 /\ \A j \in (i + 1)..Len(effects) : effects[j].op = "cleanup"
    /\ Printed("template-not-located")
          => /\ pc = "exit"
             /\ out[Len(out)].kind = "template-not-located"
             /\ effects[Len(effects)].op \in {"write-merged-manifest", "rename-readme"}

\* C16 witness: the template dependency install failed and the run is over
C16_Witness ==
    /\ pc = "exit"
    /\ Did("spawn-template-install")
    /\ effects[Len(effects)].op = "child-failed"

\* C17 (as claimed): the value createApp and run get as template is the
\* identifier the user gave after --template, and undefined without the flag.
C17_TemplateArgumentReachesRun ==
    (pc # "init" /\ argv.dir # Undefined) => template = argv.templateArg

\* an entry whose name starts with the name of an error log
StartsWithErrorLogName(file) ==
    \E p \in { <<"n", "p", "m", "-", "d", "e", "b", "u", "g", ".", "l", "o", "g">>, <<"y", "a", "r", "n", "-", "e", "r", "r", "o", "r", ".", "l", "o", "g">>, <<"y", "a", "r", "n", "-", "d", "e", "b", "u", "g", ".", "l", "o", "g">> } : StartsWith(file, p)

\* C18: when isSafeToCreateProjectIn returns true, no error log is left in
\* the directory and every other entry is as it was; when it returns false,
\* the directory is as it was.
C18_ErrorLogsRemovedOnAccept ==
    [][ (pc = "isSafe" /\ Exists(root)) =>
            /\ pc' = "writeManifest" =>
                  /\ DOMAIN fs'[root] = { f \in DOMAIN fs[root] : ~StartsWithErrorLogName(f) }
                  /\ \A f \in DOMAIN fs'[root] : fs'[root][f] = fs[root][f]
            /\ pc' = "exit" => fs' = fs ]_vars

\* C18 witness: the directory was accepted, an error log was removed from
\* it and another entry is still there
C18_Witness ==
    /\ pc = "writeManifest"
    /\ Did("remove-logs")
    /\ DOMAIN fs[root] = { <<".", "g", "i", "t">> }

\* C19: the merged package.json has, for every ignored key, what the
\* project manifest had for it before the merge, whatever the template says.
C19_IgnoredKeysKept ==
    [][ pc = "mergeManifest" =>
            LET before == fs[root][PackageJson].json
                after  == fs'[root][PackageJson].json
            IN \A key \in templatePackageBlacklist :
                  /\ (key \in DOMAIN after) <=> (key \in DOMAIN before)
                  /\ key \in DOMAIN before => after[key] = before[key] ]_vars

\* C19 witness: a template that names itself was merged and the name of the
\* project is still its own
C19_Witness ==
    /\ Did("write-merged-manifest")
    /\ pc = "renameReadme"
    /\ <<"n", "a", "m", "e">> \in DOMAIN tpl.package
    /\ <<"m", "a", "i", "n">> \in DOMAIN fs[root][PackageJson].json
    /\ fs[root][PackageJson].json[<<"n", "a", "m", "e">>] = appName

\* ------------------------------------------------------------------------
\* isBabelInstalled and the arguments built from it, on any manifest: the
\* template dependency install is taken on its own, with the dependencies
\* of package.json drawn from a bounded set
\* ------------------------------------------------------------------------
DependencyNames == { <<"@", "b", "a", "b", "e", "l", "/", "c", "o", "r", "e">>, <<"@", "b", "a", "b", "e", "l", "/", "p", "r", "e", "s", "e", "t", "-", "e", "n", "v">>, <<"l", "o", "d", "a", "s", "h">> }

DependencyVersions == { <<"7", ".", "1", "2", ".", "3">>, <<"u", "n", "d", "e", "f", "i", "n", "e", "d">> }

DependencyMaps == UNION { [names -> DependencyVersions] : names \in SUBSET DependencyNames }

ManifestsTried ==
    { InitialManifest.json } \cup
    { (<<"d", "e", "p", "e", "n", "d", "e", "n", "c", "i", "e", "s">> :> deps) @@ InitialManifest.json : deps \in DependencyMaps }

InitBabel ==
    /\ pc = "installTemplateDeps"
    /\ argv \in [dir          : {Str(<<"m", "y", "-", "a", "p", "p">>)},
                 templateFlag : {FALSE},
                 templateArg  : {Undefined},
                 yarn         : BOOLEAN,
                 verbose      : BOOLEAN]
    /\ template = Undefined
    /\ \E json \in ManifestsTried :
          fs = (root :> (PackageJson :> [kind |-> "manifest", json |-> json]))
    /\ tpl \in Templates
    /\ resolved = Returned(DefaultTemplate)
    /\ isOnline = TRUE
    /\ reason = NoReason
    /\ out = <<>>
    /\ effects = <<>>
    /\ exitCode = Running

NextBabel == installTemplateDeps

SpecBabel == InitBabel /\ [][NextBabel]_vars

\* both Babel packages are among the dependencies of the manifest
BothBabelPresent(appPackage) ==
    /\ <<"d", "e", "p", "e", "n", "d", "e", "n", "c", "i", "e", "s">> \in DOMAIN appPackage
    /\ { <<"@", "b", "a", "b", "e", "l", "/", "c", "o", "r", "e">>, <<"@", "b", "a", "b", "e", "l", "/", "p", "r", "e", "s", "e", "t", "-", "e", "n", "v">> } \subseteq DOMAIN appPackage[<<"d", "e", "p", "e", "n", "d", "e", "n", "c", "i", "e", "s">>]

\* C20 (as claimed): isBabelInstalled is true exactly when both Babel
\* packages are among the dependencies, so the two packages are among the
\* arguments of the template dependency install exactly when one is missing.
C20_BabelInstalledIffBoth ==
    pc = "installTemplateDeps" =>
        /\ isBabelInstalled(appPackageOnDisk) <=> BothBabelPresent(appPackageOnDisk)
        /\ HasArg(<<Command>> \o TemplateArgs(appPackageOnDisk), <<"@", "b", "a", "b", "e", "l", "/", "c", "o", "r", "e">>)
              <=> ~BothBabelPresent(appPackageOnDisk)

\* C21 (as claimed): with a template that declares no dependencies and no
\* devDependencies, and Babel already among the dependencies of the project,
\* the template dependency step starts no child process and writes nothing,
\* with npm as with Yarn.
C21_NoInstallWithoutDependencies ==
    [][ ( /\ pc = "installTemplateDeps"
          /\ DOMAIN templateDependencies = {}
          /\ isBabelInstalled(appPackageOnDisk) )
        => (effects' = effects /\ fs' = fs) ]_vars

\* the text holds an npm command
HasNpmCommand(text) == Includes(text, <<"n", "p", "m", " ">>)

\* the merged manifest is what package.json holds
MergedManifestOnDisk ==
    /\ Did("write-merged-manifest")
    /\ root \in DOMAIN fs
    /\ PackageJson \in DOMAIN fs[root]

\* README.md is the copy of the template's, after the step that edits it
TemplateReadmeOnDisk ==
    /\ Did("copy-template")
    /\ pc # "yarnReadme"
    /\ ReadmeMd \in DOMAIN tpl.files

\* C22 (as claimed): with Yarn every 'npm run ' and 'npm ' of each script of
\* the manifest and of the copied README.md is replaced by 'yarn ', so that
\* neither holds an npm command; with npm both are as the template gives them.
C22_YarnReplacesEveryNpm ==
    /\ MergedManifestOnDisk =>
          LET scripts == appPackageOnDisk[<<"s", "c", "r", "i", "p", "t", "s">>]
              given   == GetMap(templatePackage, <<"s", "c", "r", "i", "p", "t", "s">>)
          IN /\ DOMAIN scripts = DOMAIN given
             /\ \A k \in DOMAIN scripts :
                   IF isYarn
                   THEN scripts[k] = ReplaceNpm(given[k], TRUE) /\ ~HasNpmCommand(scripts[k])
                   ELSE scripts[k] = given[k]
    /\ TemplateReadmeOnDisk =>
          LET readme == fs[root][ReadmeMd].text
          IN IF isYarn
             THEN readme = ReplaceNpm(tpl.files[ReadmeMd], TRUE) /\ ~HasNpmCommand(readme)
             ELSE readme = tpl.files[ReadmeMd]

\* C23 (as claimed): checkIfOnline always resolves and the install follows,
\* a failed lookup under Yarn included; only under Yarn can it resolve to
\* false, and then the install is 'yarnpkg add --exact --offline' followed by
\* the dependencies; under npm the install never carries '--offline'.
C23_OfflineFallback ==
    [][ /\ (pc = "checkIfOnline") =>
              (pc' = "install" /\ (~isYarn => isOnline' = TRUE))
        /\ (pc = "install") =>
              LET cmd == effects'[Len(effects) + 1].args
              IN IF isYarn /\ ~isOnline
                 THEN /\ SubSeq(cmd, 1, 4) = << <<"y", "a", "r", "n", "p", "k", "g">>, <<"a", "d", "d">>, <<"-", "-", "e", "x", "a", "c", "t">>, <<"-", "-", "o", "f", "f", "l", "i", "n", "e">> >>
                      /\ SubSeq(cmd, 5, 4 + Len(allDependencies)) = allDependencies
                 ELSE ~HasArg(cmd, <<"-", "-", "o", "f", "f", "l", "i", "n", "e">>) ]_vars

\* the <project-directory> argument is the name of a package the tool installs
NamesDependency == argv.dir # Undefined /\ argv.dir.val \in SeqToSet(BabelDependencies)

\* C24 (as claimed): a <project-directory> argument that is '@babel/core' or
\* '@babel/preset-env' is rejected by checkAppName with the 'a dependency
\* with the same name exists' error and exit status 1, and no directory is
\* created.
C24_DependencyNameRejected ==
    (NamesDependency /\ pc \notin {"init", "checkAppName"}) =>
        /\ pc = "exit"
        /\ exitCode = 1
        /\ Printed("dependency-name")
        /\ ~Did("mkdir")

\* C25 (as claimed): for a non-empty identifier that is not a "file:" path,
\* a URL or a tarball name, getTemplateInstallPackage applied to its own
\* result gives that result again.
C25_NormalizationIdempotent ==
    (Called /\ template.val # <<>> /\ ~IsPathLike(template.val) /\ ~resolved.threw) =>
        getTemplateInstallPackage(Str(resolved.value), OriginalDirectory) = resolved

\* C26 (as claimed): whatever the <project-directory> argument is, a plain
\* name, a relative path of several segments or an absolute path, the
\* directory createApp creates is root, the one it checks for conflicts and
\* writes package.json into, and root exists when isSafeToCreateProjectIn
\* is called.
C26_CreatedDirectoryIsRoot ==
    /\ Did("mkdir") => effects[FirstIndex("mkdir")].args = <<root>>
    /\ Did("safe") => effects[FirstIndex("safe")].args = <<root>>
    /\ Did("write-manifest") => effects[FirstIndex("write-manifest")].args = <<root>>
    /\ (pc = "isSafe") => Exists(root)
====
